---- MODULE Spec2Model ----
(***************************************************************************)
(* Model of scripts/esp32_mock_server.py: an aiohttp service with one      *)
(* shared message slot (current_message, current_message_id), two HTTP     *)
(* handlers, a console input task and a UDP discovery task, all running    *)
(* on one asyncio event loop.  A step of the model is what one coroutine   *)
(* does between two awaits, or one event of the environment (a line read   *)
(* by the executor thread, a datagram, a clock tick, an HTTP request).     *)
(*                                                                         *)
(* Python str and bytes values are sequences of code points / byte values. *)
(***************************************************************************)
EXTENDS Integers, Sequences, FiniteSets, TLC

\* ------------------------------------------------------------------ bounds
MaxLineLen == 2       \* longest console line, not counting its newline
MaxTicks == 1         \* how many times the clock advances
TicksPerMs == 2       \* clock resolution: ticks per millisecond
ClockStart == 19      \* the clock (in ticks) when the process starts
MaxSent == 2          \* datagrams stop arriving after this many replies

\* -------------------------------------------------------- program constants
DefaultPort == 8080
StatusOk == 200
StatusBadRequest == 400
SleepSeconds == 1

\* --------------------------------------------------------- Python values
\* None, kept a sequence so that it compares with every str of the model.
None == << -1 >>

\* Truth value of an optional str: None and "" are false.
Truthy(v) == v # None /\ v # << >>

\* The code points str.strip() removes (the ASCII ones).
Whitespace == {9, 10, 11, 12, 13, 28, 29, 30, 31, 32}

RECURSIVE LStrip(_)
LStrip(s) ==
    IF s # << >> /\ Head(s) \in Whitespace THEN LStrip(Tail(s)) ELSE s

RECURSIVE RStrip(_)
RStrip(s) ==
    IF s # << >> /\ s[Len(s)] \in Whitespace
    THEN RStrip(SubSeq(s, 1, Len(s) - 1))
    ELSE s

\* Mutant: str.lstrip()
Strip_Left(s) == LStrip(s)

\* str.strip()
Strip(s) == RStrip(LStrip(s))

\* str(n) for an int n >= 0: its decimal digits.
RECURSIVE ToStr(_)
ToStr(n) ==
    IF n < 10 THEN << 48 + n >> ELSE ToStr(n \div 10) \o << 48 + (n % 10) >>

\* The int a str of decimal digits denotes.
RECURSIVE ParseInt(_)
ParseInt(s) ==
    IF s = << >> THEN 0
    ELSE 10 * ParseInt(SubSeq(s, 1, Len(s) - 1)) + (s[Len(s)] - 48)

\* All sequences over S of length at most n.
SeqsUpTo(S, n) == UNION {[1..k -> S] : k \in 0..n}

\* ------------------------------------------------------------ input sets
LineChars == {97, 32}                       \* "a" and " "

\* What sys.stdin.readline can return: "" at end of input, else a line with
\* its newline, or the last line of the input without one.
Lines ==
    {s \o nl : s \in SeqsUpTo(LineChars, MaxLineLen), nl \in {<< >>, << 10 >>}}

Ports == {DefaultPort, 80}                  \* values of --port

\* Request bodies of POST /response.
Bodies ==
    { "{\"response\":\"hello\"}", "{\"response\":\"\"}", "{}", "{\"other\":\"x\"}",
      "[1]", "\"hello\"", "{\"response\":", "hello", "" }

\* Datagram payloads (bytes) and their senders.
DiscoverBytes == << 70, 76, 85, 69, 78, 83, 95, 68, 73, 83, 67, 79, 86, 69, 82 >>
Payloads ==
    { DiscoverBytes,                       \* FLUENS_DISCOVER
      DiscoverBytes \o << 10 >>,           \* FLUENS_DISCOVER\n
      << 32 >> \o DiscoverBytes,           \* " FLUENS_DISCOVER"
      DiscoverBytes \o << 89 >>,           \* FLUENS_DISCOVERY
      << 80, 73, 78, 71 >>,                \* PING
      << >>,                               \* an empty datagram
      << 255 >>,                           \* not UTF-8
      DiscoverBytes \o << 255 >> }         \* FLUENS_DISCOVER, then not UTF-8
Addrs == {"peer1", "peer2"}

\* ------------------------------------------------------------------ state
VARIABLES
    current_message,      \* the slot's text: None or a str
    current_message_id,   \* the slot's id: None or a str
    clock,                \* time.time(), in ticks
    http_port,            \* app['http_port']
    phase,                \* the service: "init", "running", "await_input",
                          \* "await_udp", "stopped" ("failed" if cleanup raised)
    inputPc,              \* input_task: "none", "created", "reading", "done", "cancelled"
    inputFut,             \* the run_in_executor future of the pending readline
    inputCancel,          \* input_task.cancel() was called and not yet delivered
    inputLog,             \* what input_task did about the last error, until the
                          \* next readline completes
    udpPc,                \* udp_task: "none", "created", "recv", "sleep", "done", "cancelled"
    udpFut,               \* the sock_recvfrom future
    udpCancel,            \* udp_task.cancel() was called and not yet delivered
    udpLog,               \* what udp_task did about the last error, until the
                          \* next receive completes
    sock,                 \* the UDP socket: "none", "unbound", "open", "closed"
    lastSet,              \* history: the last non-blank line the console loop took,
                          \* trimmed, the millisecond it was taken in, and whether
                          \* the line before it was taken after the last poll
    wroteSincePoll,       \* history: a non-blank line was taken after the last poll
    polledIds,            \* history: the ids the polls have returned
    pollBit,              \* history: the parity of the number of polls
    lastGet,              \* history: the response to the last GET /messages, and
                          \* whether it came after another poll with no line
                          \* taken in between
    lastPost,             \* history: the last POST /response and what it did
    lastUdp,              \* history: the last datagram handled and what it did
    nSent                 \* history: how many sock.sendto calls were made

slotVars == << current_message, current_message_id >>
inputVars == << inputPc, inputFut, inputCancel, inputLog >>
udpVars == << udpPc, udpFut, udpCancel, sock, udpLog >>
pollHist == << wroteSincePoll, polledIds, pollBit, lastGet >>
udpHist == << lastUdp, nSent >>
vars ==
    << current_message, current_message_id, clock, http_port, phase,
       inputPc, inputFut, inputCancel, inputLog, udpPc, udpFut, udpCancel,
       sock, udpLog, lastSet, wroteSincePoll, polledIds, pollBit, lastGet, lastPost,
       lastUdp, nSent >>

\* A future: pending, or done with a result or with an exception.
Pending == [kind |-> "pending", v |-> None, from |-> "-"]
NoFut == [kind |-> "none", v |-> None, from |-> "-"]
Result(x, a) == [kind |-> "result", v |-> x, from |-> a]
Raised == [kind |-> "exception", v |-> None, from |-> "-"]

\* The empty dict {} of handle_get_messages.
EmptyObj == [k \in {} |-> None]

NoWrite == [text |-> None, ms |-> 0, over |-> FALSE]
NoResp == [status |-> 0, body |-> EmptyObj, again |-> FALSE]
NoPost == [body |-> "-", status |-> 0, out |-> << >>, logged |-> FALSE]
NoUdp == [data |-> None, from |-> "-", calls |-> << >>, logged |-> FALSE, next |-> "-"]

\* What a loop did about an error: the message it gave logger.error and
\* the seconds it then slept.
NoLog == [msg |-> "-", sleep |-> 0]

\* "Failed to bind UDP port ...", then return
OnBindFailure == [msg |-> "Failed to bind UDP port", sleep |-> 0]

\* "UDP Error: ...", then await asyncio.sleep(1)
OnUdpError == [msg |-> "UDP Error", sleep |-> SleepSeconds]

\* "Input error: ...", and nothing after it
OnInputError == [msg |-> "Input error", sleep |-> 0]

\* ------------------------------------------------------------ the slot
\* Mutant: a slot that starts with a text.
InitialMessage_Preset == << 97 >>

InitialMessage == None
InitialMessageId == None

\* int(time.time() * 1000)
NowMillis == clock \div TicksPerMs

\* Mutant: a loop without the test for end of input.
IsEof_Never(line) == FALSE

\* "if not msg: break"
IsEof(line) == ~Truthy(line)

\* Mutant: the stripped line is written without the test.
LineAccepted_Always(msg) == TRUE

\* "if msg:" on the stripped line
LineAccepted(msg) == Truthy(msg)

\* Mutant: a write that does not replace a message already in the slot.
WriteSlot_KeepFirst(msg, ms) ==
    IF current_message = None
    THEN [message |-> msg, id |-> ToStr(ms)]
    ELSE [message |-> current_message, id |-> current_message_id]

\* Mutant: a write that replaces the text and keeps the id the slot had.
WriteSlot_StaleId(msg, ms) ==
    [message |-> msg,
     id |-> IF current_message_id = None THEN ToStr(ms) ELSE current_message_id]

\* The two assignments of console_input_loop, made in one step of the loop:
\* the slot after the write of msg at millisecond ms.
WriteSlot(msg, ms) == [message |-> msg, id |-> ToStr(ms)]

\* Mutant: the dict built without looking at the slot.
HandleGetData_Always(m, i) == [message |-> m, id |-> i]

\* The dict handle_get_messages serialises.
HandleGetData(m, i) ==
    IF Truthy(m) THEN [message |-> m, id |-> i] ELSE EmptyObj

\* The part of s between its first and its last non-whitespace element.
Trimmed(s) ==
    LET I == {i \in 1..Len(s) : s[i] \notin Whitespace}
    IN IF I = {} THEN << >>
       ELSE SubSeq(s, CHOOSE i \in I : \A j \in I : i <= j,
                      CHOOSE i \in I : \A j \in I : i >= j)

\* A line with a character that is not whitespace.
NonBlank(line) == \E i \in 1..Len(line) : line[i] \notin Whitespace

\* ---------------------------------------------------------- the event loop
\* Mutant: sys.stdin.readline called in the coroutine itself.
ReadIn_Loop == "loop"

\* Where the blocking readline runs: loop.run_in_executor(None, ...) hands
\* it to a thread of the default executor.
ReadIn == "executor"

\* The event loop's thread is free to run a callback: no coroutine is
\* blocked in a read on it.
LoopFree == ~(ReadIn = "loop" /\ inputPc = "reading" /\ inputFut = Pending)

\* Mutant: a service that stops handling requests when input_task ends.
Serving_WhileConsole == phase = "running" /\ inputPc # "done"

\* The HTTP handlers are served from startup until cleanup, whatever the
\* background tasks do: web.run_app does not watch them.
Serving == phase = "running"

\* --------------------------------------------------------------- startup
InitWith(PortSet) ==
    /\ current_message = InitialMessage
    /\ current_message_id = InitialMessageId
    /\ clock = ClockStart
    /\ http_port \in PortSet
    /\ phase = "init"
    /\ inputPc = "none" /\ inputFut = NoFut /\ inputCancel = FALSE
    /\ inputLog = NoLog
    /\ udpPc = "none" /\ udpFut = NoFut /\ udpCancel = FALSE
    /\ udpLog = NoLog
    /\ sock = "none"
    /\ lastSet = NoWrite
    /\ wroteSincePoll = FALSE
    /\ polledIds = {}
    /\ pollBit = 0
    /\ lastGet = NoResp
    /\ lastPost = NoPost
    /\ lastUdp = NoUdp
    /\ nSent = 0

\* time.time() moves on.
Tick ==
    /\ clock < ClockStart + MaxTicks
    /\ clock' = clock + 1
    /\ UNCHANGED << slotVars, http_port, phase, inputVars, udpVars, lastSet,
                    pollHist, lastPost, udpHist >>

\* start_background_tasks: both tasks are created; neither has run yet.
StartBackgroundTasks ==
    /\ phase = "init"
    /\ phase' = "running"
    /\ inputPc' = "created"
    /\ udpPc' = "created"
    /\ UNCHANGED << slotVars, clock, http_port, inputFut, inputCancel, inputLog,
                    udpFut, udpCancel, sock, udpLog, lastSet, pollHist,
                    lastPost, udpHist >>

\* ------------------------------------------------------ console_input_loop
\* First step of input_task: the banner, then the first readline is handed
\* to the executor and the task waits for it.
ConsoleStart ==
    /\ inputPc = "created" /\ ~inputCancel
    /\ inputPc' = "reading"
    /\ inputFut' = Pending
    /\ UNCHANGED << slotVars, clock, http_port, phase, inputCancel, inputLog,
                    udpVars, lastSet, pollHist, lastPost, udpHist >>

\* The executor thread: sys.stdin.readline returns a line, or raises.
ReadlineReturns(L) ==
    /\ inputPc = "reading" /\ inputFut = Pending /\ ~inputCancel
    /\ \E line \in L : inputFut' = Result(line, "-")
    /\ inputLog' = NoLog
    /\ UNCHANGED << slotVars, clock, http_port, phase, inputPc, inputCancel,
                    udpVars, lastSet, pollHist, lastPost, udpHist >>

ReadlineRaises ==
    /\ inputPc = "reading" /\ inputFut = Pending /\ ~inputCancel
    /\ inputFut' = Raised
    /\ inputLog' = NoLog
    /\ UNCHANGED << slotVars, clock, http_port, phase, inputPc, inputCancel,
                    udpVars, lastSet, pollHist, lastPost, udpHist >>

\* The loop body after the await, for the line the future holds: end of
\* input ends the loop; a line that strips to something is written to the
\* slot; then the next readline is handed to the executor.
ConsoleLine ==
    /\ inputPc = "reading" /\ inputFut.kind = "result" /\ ~inputCancel
    /\ LET line == inputFut.v
           msg == Strip(line)
           new == WriteSlot(msg, NowMillis)
       IN IF IsEof(line)
          THEN /\ inputPc' = "done"
               /\ inputFut' = NoFut
               /\ UNCHANGED << slotVars, lastSet, wroteSincePoll >>
          ELSE /\ inputPc' = "reading"
               /\ inputFut' = Pending
               /\ IF LineAccepted(msg)
                  THEN /\ current_message' = new.message
                       /\ current_message_id' = new.id
                  ELSE /\ UNCHANGED slotVars
               /\ IF NonBlank(line)
                  THEN /\ lastSet' = [text |-> Trimmed(line), ms |-> NowMillis,
                                    over |-> wroteSincePoll]
                       /\ wroteSincePoll' = TRUE
                  ELSE UNCHANGED << lastSet, wroteSincePoll >>
    /\ UNCHANGED << clock, http_port, phase, inputCancel, inputLog, udpVars,
                    polledIds, pollBit, lastGet, lastPost, udpHist >>

\* Mutant: an error that ends the loop.
AfterInputError_Break == "done"

\* Where input_task is after "except Exception": the clause falls through
\* to the next iteration of "while True", at the readline.
AfterInputError == "reading"

\* "except Exception": the error is logged and the loop reads again.
ConsoleInputError ==
    /\ inputPc = "reading" /\ inputFut.kind = "exception" /\ ~inputCancel
    /\ inputPc' = AfterInputError
    /\ inputFut' = IF AfterInputError = "reading" THEN Pending ELSE NoFut
    /\ inputLog' = OnInputError
    /\ UNCHANGED << slotVars, clock, http_port, phase, inputCancel, udpVars,
                    lastSet, pollHist, lastPost, udpHist >>

\* "except asyncio.CancelledError: break": the cancellation arrives at the
\* await, whether or not the line was already there.
ConsoleCancelled ==
    /\ inputPc = "reading" /\ inputCancel
    /\ inputPc' = "done"
    /\ inputFut' = NoFut
    /\ inputCancel' = FALSE
    /\ UNCHANGED << slotVars, clock, http_port, phase, inputLog, udpVars,
                    lastSet, pollHist, lastPost, udpHist >>

\* Cancelled before its first step: the coroutine never enters its try, and
\* the task ends cancelled.
ConsoleNeverStarted ==
    /\ inputPc = "created" /\ inputCancel
    /\ inputPc' = "cancelled"
    /\ inputCancel' = FALSE
    /\ UNCHANGED << slotVars, clock, http_port, phase, inputFut, inputLog,
                    udpVars, lastSet, pollHist, lastPost, udpHist >>

\* ---------------------------------------------------- handle_get_messages
\* The handler, leaving (m2, i2) in the slot.
GetMessagesThen(m2, i2) ==
    /\ Serving /\ LoopFree
    /\ LET data == HandleGetData(current_message, current_message_id)
       IN /\ lastGet' = [status |-> StatusOk, body |-> data,
                         again |-> lastGet.status # 0 /\ ~wroteSincePoll]
          /\ polledIds' =
                IF data = EmptyObj THEN polledIds ELSE polledIds \cup {data.id}
    /\ current_message' = m2
    /\ current_message_id' = i2
    /\ wroteSincePoll' = FALSE
    /\ pollBit' = 1 - pollBit
    /\ UNCHANGED << clock, http_port, phase, inputVars, udpVars, lastSet,
                    lastPost, udpHist >>

\* Mutant: a poll that consumes the message.
GetMessages_Consuming == GetMessagesThen(None, None)

\* handle_get_messages assigns neither global.
GetMessages == GetMessagesThen(current_message, current_message_id)

\* --------------------------------------------------- handle_post_response
\* json.loads on the request bodies of the model.
JsonDict(d) == [kind |-> "dict", d |-> d]
JsonOther(k) == [kind |-> k, d |-> EmptyObj]
JsonLoads(b) ==
    CASE b = "{\"response\":\"hello\"}" -> JsonDict([response |-> "hello"])
      [] b = "{\"response\":\"\"}" -> JsonDict([response |-> ""])
      [] b = "{}" -> JsonDict(EmptyObj)
      [] b = "{\"other\":\"x\"}" -> JsonDict([other |-> "x"])
      [] b = "[1]" -> JsonOther("list")
      [] b = "\"hello\"" -> JsonOther("str")
      [] OTHER -> JsonOther("JSONDecodeError")

\* dict.get(key, default)
DictGet(d, key, default) == IF key \in DOMAIN d THEN d[key] ELSE default

\* Mutant: data.get('response') with no default.
HandlePostResponse_NoDefault(body) ==
    LET data == JsonLoads(body)
    IN IF data.kind = "dict"
       THEN [status |-> StatusOk,
             out |-> << "\n[APP SAYS]: " \o DictGet(data.d, "response", "None") \o "\n> " >>,
             logged |-> FALSE]
       ELSE [status |-> StatusBadRequest, out |-> << >>, logged |-> TRUE]

\* The handler: what it answers, prints and logs for a request body.  A body
\* that is no JSON raises in request.json(); one that is JSON but no object
\* raises at data.get; "except Exception" turns both into a 400.
HandlePostResponse(body) ==
    LET data == JsonLoads(body)
    IN IF data.kind = "dict"
       THEN [status |-> StatusOk,
             out |-> << "\n[APP SAYS]: " \o DictGet(data.d, "response", "") \o "\n> " >>,
             logged |-> FALSE]
       ELSE [status |-> StatusBadRequest, out |-> << >>, logged |-> TRUE]

PostResponse(B) ==
    /\ Serving /\ LoopFree
    /\ \E body \in B :
          LET r == HandlePostResponse(body)
          IN lastPost' = [body |-> body, status |-> r.status, out |-> r.out,
                          logged |-> r.logged]
    /\ UNCHANGED << slotVars, clock, http_port, inputVars, udpVars, phase,
                    lastSet, pollHist, udpHist >>

\* ------------------------------------------------------ udp_discovery_loop
\* bytes.decode('utf-8') on the payloads of the model: a byte above 127 that
\* starts no valid sequence raises UnicodeDecodeError; ASCII bytes decode to
\* the code points of the same value.
DecodeOk(data) == \A i \in 1..Len(data) : data[i] < 128
Decode(data) == data
Encode(str) == str

DiscoverStr == DiscoverBytes                 \* "FLUENS_DISCOVER"
HerePrefix ==                                \* "FLUENS_ESP32_HERE:"
    << 70, 76, 85, 69, 78, 83, 95, 69, 83, 80, 51, 50, 95, 72, 69, 82, 69, 58 >>

\* Mutant: the payload compared without strip().
HandleDatagram_NoStrip(data, addr, port) ==
    IF ~DecodeOk(data)
    THEN [calls |-> << >>, raised |-> TRUE]
    ELSE IF Decode(data) = DiscoverStr
         THEN [calls |-> << [to |-> addr,
                             data |-> Encode(HerePrefix \o ToStr(port))] >>,
               raised |-> FALSE]
         ELSE [calls |-> << >>, raised |-> FALSE]

\* The loop body after the await for one datagram: the sendto calls it makes
\* and whether it raises before any call.
HandleDatagram(data, addr, port) ==
    IF ~DecodeOk(data)
    THEN [calls |-> << >>, raised |-> TRUE]
    ELSE IF Strip(Decode(data)) = DiscoverStr
         THEN [calls |-> << [to |-> addr,
                             data |-> Encode(HerePrefix \o ToStr(port))] >>,
               raised |-> FALSE]
         ELSE [calls |-> << >>, raised |-> FALSE]

\* Mutant: an error that ends the loop.
AfterUdpError_Break == "done"

\* Where udp_task is after "except Exception": in asyncio.sleep.
AfterUdpError == IF OnUdpError.sleep > 0 THEN "sleep" ELSE "recv"

\* A datagram the protocol calls a discovery probe.
IsProbe(data) ==
    /\ \A i \in 1..Len(data) : data[i] < 128
    /\ Trimmed(data) = DiscoverBytes

\* Mutant: a failed bind that falls through to the receive loop.
AfterBindFailure_Receive == "recv"

\* Where udp_task is after the failed bind: "return".
AfterBindFailure == "done"

\* First step of udp_task: the socket is made and bound, or the bind fails,
\* which is logged, and the coroutine returns.
UdpStart ==
    /\ udpPc = "created" /\ ~udpCancel /\ LoopFree
    /\ \E bound \in BOOLEAN :
          IF bound
          THEN /\ sock' = "open"
               /\ udpPc' = "recv"
               /\ udpFut' = Pending
               /\ udpLog' = udpLog
          ELSE /\ sock' = "unbound"
               /\ udpPc' = AfterBindFailure
               /\ udpFut' = IF AfterBindFailure = "recv" THEN Pending ELSE NoFut
               /\ udpLog' = OnBindFailure
    /\ UNCHANGED << slotVars, clock, http_port, phase, inputVars, udpCancel,
                    lastSet, pollHist, lastPost, udpHist >>

UdpNeverStarted ==
    /\ udpPc = "created" /\ udpCancel /\ LoopFree
    /\ udpPc' = "cancelled"
    /\ udpCancel' = FALSE
    /\ UNCHANGED << slotVars, clock, http_port, phase, inputVars, udpFut, sock,
                    udpLog, lastSet, pollHist, lastPost, udpHist >>

\* loop.sock_recvfrom completes with a datagram, or with an error.
DatagramArrives(P, A, S) ==
    /\ udpPc = "recv" /\ udpFut = Pending /\ ~udpCancel /\ LoopFree
    /\ nSent < S
    /\ \E data \in P, addr \in A : udpFut' = Result(data, addr)
    /\ udpLog' = NoLog
    /\ UNCHANGED << slotVars, clock, http_port, phase, inputVars, udpPc,
                    udpCancel, sock, lastSet, pollHist, lastPost, udpHist >>

RecvFails ==
    /\ udpPc = "recv" /\ udpFut = Pending /\ ~udpCancel /\ LoopFree
    /\ udpFut' = Raised
    /\ udpLog' = NoLog
    /\ UNCHANGED << slotVars, clock, http_port, phase, inputVars, udpPc,
                    udpCancel, sock, lastSet, pollHist, lastPost, udpHist >>

\* The loop body for the datagram the future holds.  sock.sendto can raise
\* too; whatever raises is logged and followed by the one-second sleep.
UdpDatagram ==
    /\ udpPc = "recv" /\ udpFut.kind = "result" /\ ~udpCancel /\ LoopFree
    /\ LET data == udpFut.v
           addr == udpFut.from
           r == HandleDatagram(data, addr, http_port)
       IN \E sendOk \in BOOLEAN :
             LET raised == r.raised \/ (r.calls # << >> /\ ~sendOk)
             IN /\ (r.calls = << >> => sendOk)
                /\ udpPc' = IF raised THEN AfterUdpError ELSE "recv"
                /\ udpFut' = IF raised /\ AfterUdpError = "sleep"
                             THEN NoFut ELSE Pending
                /\ udpLog' = IF raised THEN OnUdpError ELSE udpLog
                /\ lastUdp' = [data |-> data, from |-> addr, calls |-> r.calls,
                               logged |-> raised,
                               next |-> IF raised THEN AfterUdpError ELSE "recv"]
                /\ nSent' = nSent + Len(r.calls)
    /\ UNCHANGED << slotVars, clock, http_port, phase, inputVars, udpCancel,
                    sock, lastSet, pollHist, lastPost >>

\* "except Exception" for a failed receive: logged, then the sleep.
UdpRecvError ==
    /\ udpPc = "recv" /\ udpFut.kind = "exception" /\ ~udpCancel /\ LoopFree
    /\ udpPc' = AfterUdpError
    /\ udpFut' = IF AfterUdpError = "sleep" THEN NoFut ELSE Pending
    /\ udpLog' = OnUdpError
    /\ UNCHANGED << slotVars, clock, http_port, phase, inputVars, udpCancel,
                    sock, lastSet, pollHist, lastPost, udpHist >>

\* asyncio.sleep(1) is over: back to the receive.
UdpWake ==
    /\ udpPc = "sleep" /\ ~udpCancel /\ LoopFree
    /\ udpPc' = "recv"
    /\ udpFut' = Pending
    /\ UNCHANGED << slotVars, clock, http_port, phase, inputVars, udpCancel,
                    sock, udpLog, lastSet, pollHist, lastPost, udpHist >>

\* Cancelled at the receive: "except asyncio.CancelledError: break", then
\* sock.close().
UdpCancelledRecv ==
    /\ udpPc = "recv" /\ udpCancel /\ LoopFree
    /\ udpPc' = "done"
    /\ udpFut' = NoFut
    /\ udpCancel' = FALSE
    /\ sock' = "closed"
    /\ UNCHANGED << slotVars, clock, http_port, phase, inputVars, udpLog,
                    lastSet, pollHist, lastPost, udpHist >>

\* Cancelled in the sleep: the sleep is awaited inside the except clause,
\* outside the try, so CancelledError leaves the coroutine and the task ends
\* cancelled, without reaching sock.close().
UdpCancelledSleep ==
    /\ udpPc = "sleep" /\ udpCancel /\ LoopFree
    /\ udpPc' = "cancelled"
    /\ udpCancel' = FALSE
    /\ UNCHANGED << slotVars, clock, http_port, phase, inputVars, udpFut, sock,
                    udpLog, lastSet, pollHist, lastPost, udpHist >>

\* ------------------------------------------------ cleanup_background_tasks
\* Task.cancel() on a task that has not finished.
Running(pc) == pc \notin {"none", "done", "cancelled"}

\* "await task" in cleanup: returns when the task returned, raises
\* CancelledError when the task ended cancelled.
AwaitTask(pc) == IF pc = "done" THEN "returned" ELSE "CancelledError"

\* Mutant: cleanup without its "except asyncio.CancelledError: pass".
AfterAwait_NoExcept(outcome, next) ==
    IF outcome = "returned" THEN next ELSE "failed"

\* Where cleanup is after an await of its try: at the next statement, or,
\* through "except asyncio.CancelledError: pass", at its end.
AfterAwait(outcome, next) ==
    IF outcome = "returned" THEN next ELSE "stopped"

\* The two cancel() calls.
CleanupCancel ==
    /\ phase = "running" /\ LoopFree
    /\ phase' = "await_input"
    /\ inputCancel' = Running(inputPc)
    /\ udpCancel' = Running(udpPc)
    /\ UNCHANGED << slotVars, clock, http_port, inputPc, inputFut, inputLog,
                    udpPc, udpFut, sock, udpLog, lastSet, pollHist, lastPost,
                    udpHist >>

\* "await app['input_task']": returns when the task has returned; raises
\* CancelledError, which ends the try, when the task ended cancelled.
CleanupAwaitInput ==
    /\ phase = "await_input" /\ LoopFree
    /\ inputPc \in {"done", "cancelled"}
    /\ phase' = AfterAwait(AwaitTask(inputPc), "await_udp")
    /\ UNCHANGED << slotVars, clock, http_port, inputVars, udpVars, lastSet,
                    pollHist, lastPost, udpHist >>

\* "await app['udp_task']"
CleanupAwaitUdp ==
    /\ phase = "await_udp" /\ LoopFree
    /\ udpPc \in {"done", "cancelled"}
    /\ phase' = AfterAwait(AwaitTask(udpPc), "stopped")
    /\ UNCHANGED << slotVars, clock, http_port, inputVars, udpVars, lastSet,
                    pollHist, lastPost, udpHist >>

\* ------------------------------------------------------------ the service
\* The service with its inputs drawn from L (console lines), B (request
\* bodies), P (datagram payloads) and A (datagram senders), and
\* datagrams arriving until S replies were sent.
NextWith(L, B, P, A, S) ==
    \/ Tick
    \/ StartBackgroundTasks
    \/ ConsoleStart
    \/ ReadlineReturns(L)
    \/ ReadlineRaises
    \/ ConsoleLine
    \/ ConsoleInputError
    \/ ConsoleCancelled
    \/ ConsoleNeverStarted
    \/ GetMessages
    \/ PostResponse(B)
    \/ UdpStart
    \/ UdpNeverStarted
    \/ DatagramArrives(P, A, S)
    \/ RecvFails
    \/ UdpDatagram
    \/ UdpRecvError
    \/ UdpWake
    \/ UdpCancelledRecv
    \/ UdpCancelledSleep
    \/ CleanupCancel
    \/ CleanupAwaitInput
    \/ CleanupAwaitUdp

\* Small input sets, for the inputs a specification does not vary.
EofOnly == {<< >>}
FewLines == {<< 97, 10 >>, << 32, 10 >>, << >>}
OneBody == {"{\"response\":\"hello\"}"}
FewBodies == {"{\"response\":\"hello\"}", "hello"}
Ping == {<< 80, 73, 78, 71 >>}
FewPayloads == {DiscoverBytes, << 80, 73, 78, 71 >>, << 255 >>}
OneAddr == {"peer1"}

\* The message slot: every console line; one request body, one datagram.
Init == InitWith({DefaultPort})
Next == NextWith(Lines, OneBody, Ping, OneAddr, MaxSent)
Spec == Init /\ [][Next]_vars

\* The slot's frame: few console lines, against request bodies and
\* datagrams of every kind.
NextFrame == NextWith(FewLines, FewBodies, FewPayloads, OneAddr, MaxSent)
SpecFrame == Init /\ [][NextFrame]_vars

\* POST /response: every request body; the console at end of input.
NextPost == NextWith(EofOnly, Bodies, FewPayloads, OneAddr, MaxSent)
SpecPost == Init /\ [][NextPost]_vars

\* Discovery: every datagram payload, sender and port; the console at end
\* of input.
InitDiscovery == InitWith(Ports)
NextDiscovery == NextWith(EofOnly, OneBody, Payloads, Addrs, MaxSent)
SpecDiscovery == InitDiscovery /\ [][NextDiscovery]_vars

\* The event loop runs every callback that is ready: a task whose cancel()
\* was called is stepped, and cleanup resumes once the task it awaits has
\* ended.
LoopFairness ==
    /\ WF_vars(ConsoleCancelled) /\ WF_vars(ConsoleNeverStarted)
    /\ WF_vars(UdpCancelledRecv) /\ WF_vars(UdpCancelledSleep)
    /\ WF_vars(UdpNeverStarted)
    /\ WF_vars(CleanupAwaitInput) /\ WF_vars(CleanupAwaitUdp)

\* Shutdown: the inputs of SpecFrame, under the event loop's scheduling.
SpecLive == Init /\ [][NextFrame]_vars /\ LoopFairness

\* ===================================================== the message slot
\* The response of the last poll, when nothing was written since.
Polled == lastGet # NoResp /\ ~wroteSincePoll

\* A step that is a poll.
PollStep == pollBit' # pollBit

\* The step of console_input_loop that takes a non-blank line.
ConsoleTakesLine ==
    /\ inputPc = "reading" /\ inputFut.kind = "result" /\ ~inputCancel
    /\ NonBlank(inputFut.v)
    /\ inputFut' = Pending

\* (C1) Last write wins: after console writes with no poll in between, the
\* next GET /messages returns the trimmed text of the last line written,
\* whatever was polled, posted or probed before.
C1_LastWriteWins ==
    (Polled /\ lastSet # NoWrite) =>
        /\ lastGet.body # EmptyObj
        /\ lastGet.body.message = lastSet.text

\* A poll has returned the text of a line that overwrote a line no poll had
\* returned, with an earlier poll, a POST and a datagram before.
C1_Witness ==
    /\ Polled /\ lastSet.over
    /\ lastGet.body # EmptyObj
    /\ lastGet.body.message = << 97, 97 >>
    /\ Cardinality(polledIds) = 2
    /\ lastPost # NoPost /\ lastUdp # NoUdp

\* (C2) Freshness id: when lines were written since the poll before, the id
\* a poll returns is distinct from, and ordered after, every id a poll
\* returned earlier, also for two writes within one millisecond.
C2_FreshId ==
    [][(PollStep /\ wroteSincePoll /\ lastGet'.body # EmptyObj) =>
          \A i \in polledIds : ParseInt(i) < ParseInt(lastGet'.body.id)]_vars

\* (C3) Atomic whole-value read/replace: a GET /messages response carries
\* the text and the id that one console write stored together, the last
\* write completed before the poll; never the text of one write with the id
\* of another, never a text without an id.
C3_AtomicPair ==
    (Polled /\ lastGet.body # EmptyObj) =>
        /\ DOMAIN lastGet.body = {"message", "id"}
        /\ lastGet.body.message = lastSet.text
        /\ lastGet.body.id # None
        /\ ParseInt(lastGet.body.id) = lastSet.ms

\* A poll raced with a write: a new line was read but not yet written when
\* the poll was answered, and the poll returned the old pair, whole.
C3_Witness ==
    /\ Polled /\ lastGet.body # EmptyObj
    /\ inputPc = "reading" /\ inputFut.kind = "result"
    /\ NonBlank(inputFut.v)
    /\ Trimmed(inputFut.v) # lastGet.body.message
    /\ ParseInt(lastGet.body.id) # NowMillis
    /\ lastSet.over

\* (C4) The slot's id is present iff its text is present, and a GET
\* /messages response is {} or has both keys, message and id, non-null.
C4_IdIffText ==
    /\ (current_message = None) <=> (current_message_id = None)
    /\ lastGet # NoResp =>
          \/ lastGet.body = EmptyObj
          \/ /\ DOMAIN lastGet.body = {"message", "id"}
             /\ lastGet.body.message # None
             /\ lastGet.body.id # None

\* The slot holds a text and an id, and a second poll returned them.
C4_Witness ==
    /\ current_message # None /\ current_message_id # None
    /\ Polled /\ lastGet.body # EmptyObj
    /\ pollBit = 0

\* (C5) Until the console has written for the first time, every GET
\* /messages returns {} with status 200, whatever polls, POSTs, probes or
\* blank lines came before.
C5_EmptyUntilFirstWrite ==
    (lastGet # NoResp /\ lastSet = NoWrite) =>
        /\ lastGet.status = StatusOk
        /\ lastGet.body = EmptyObj

\* A repeated poll returned {} after a POST and a datagram, with a blank
\* line read by the console and no line written.
C5_Witness ==
    /\ lastGet # NoResp /\ lastGet.again /\ lastGet.body = EmptyObj
    /\ lastSet = NoWrite
    /\ lastPost # NoPost /\ lastUdp # NoUdp
    /\ inputFut.kind = "result" /\ inputFut.v = << 32, 10 >>

\* (C6) Polling is a pure, idempotent read: a GET /messages leaves text and
\* id as they were, and a poll that follows another with no console write
\* in between returns the identical response.
C6_PollPure ==
    [][PollStep =>
          /\ slotVars' = slotVars
          /\ (Polled => /\ lastGet'.status = lastGet.status
                        /\ lastGet'.body = lastGet.body)]_vars

\* A poll repeated a poll that returned a message, with a POST and a
\* datagram in the run.
C6_Witness ==
    /\ lastGet.again /\ lastGet.body # EmptyObj
    /\ lastPost # NoPost /\ lastUdp # NoUdp

\* (C7) Only the console loop changes the slot: text and id change in no
\* step but the console loop's taking a non-blank line (not in a POST, a
\* poll, a step of the discovery loop, startup or shutdown), and a slot
\* that holds a message never becomes empty again.
C7_OnlyConsoleWrites ==
    [][/\ (slotVars' # slotVars) => ConsoleTakesLine
       /\ (current_message \notin {None, << >>}) =>
             (current_message' \notin {None, << >>})]_vars

\* The service has stopped with a message in the slot, after a poll, a
\* rejected POST, a probe answered and a datagram that raised.
C7_Witness ==
    /\ phase = "stopped"
    /\ current_message # None
    /\ lastGet # NoResp
    /\ lastPost.status = StatusBadRequest
    /\ nSent > 0
    /\ lastUdp.logged

\* ======================================================= POST /response
\* The request bodies that are a JSON object, with the value of their
\* response field ("" when they have none), and those that are no JSON.
ObjectBodies ==
    { "{\"response\":\"hello\"}", "{\"response\":\"\"}", "{}", "{\"other\":\"x\"}" }
ResponseField(b) == IF b = "{\"response\":\"hello\"}" THEN "hello" ELSE ""
NotJsonBodies == { "{\"response\":", "hello", "" }

\* (C8) POST /response: a body that is a JSON object yields 200 and prints
\* the value of its response field ("" when absent) exactly once; a body
\* that is no JSON yields 400 and prints nothing; the handler answers with
\* a status in every case.
C8_PostResponse ==
    lastPost # NoPost =>
        /\ lastPost.status \in {StatusOk, StatusBadRequest}
        /\ lastPost.body \in ObjectBodies =>
              /\ lastPost.status = StatusOk
              /\ lastPost.out =
                    << "\n[APP SAYS]: " \o ResponseField(lastPost.body) \o "\n> " >>
        /\ lastPost.body \in NotJsonBodies =>
              /\ lastPost.status = StatusBadRequest
              /\ lastPost.out = << >>

\* An object without the response field was posted and answered 200, with
\* the empty text printed once, and the service went on to answer a poll
\* twice.
C8_Witness ==
    /\ lastPost.body = "{}"
    /\ lastPost.status = StatusOk
    /\ lastPost.out = << "\n[APP SAYS]: \n> " >>
    /\ lastGet.again

\* ============================================================ discovery
\* The step of udp_discovery_loop that handles the datagram received.
UdpHandles ==
    /\ udpPc = "recv" /\ udpFut.kind = "result" /\ ~udpCancel
    /\ udpFut' # udpFut

\* "FLUENS_ESP32_HERE:<port>" for the ports of the model.
HereBytes ==
    HerePrefix \o (IF http_port = 8080 THEN << 56, 48, 56, 48 >> ELSE << 56, 48 >>)

\* The replies the protocol asks for one datagram.
Replies(data, from) ==
    IF IsProbe(data) THEN << [to |-> from, data |-> HereBytes] >> ELSE << >>

\* (C9) Discovery handshake: handling a datagram whose decoded, trimmed
\* payload is FLUENS_DISCOVER makes exactly one sendto call, to the
\* datagram's sender, with FLUENS_ESP32_HERE:<port> for the port given at
\* startup; no other step makes a sendto call.
C9_Handshake ==
    [][IF UdpHandles
       THEN /\ lastUdp'.data = udpFut.v /\ lastUdp'.from = udpFut.from
            /\ lastUdp'.calls = Replies(udpFut.v, udpFut.from)
            /\ nSent' = nSent + Len(Replies(udpFut.v, udpFut.from))
       ELSE nSent' = nSent]_vars

\* The second probe answered: FLUENS_DISCOVER with a newline, from peer2,
\* answered with the port 80 of this run.
C9_Witness ==
    /\ http_port = 80
    /\ nSent = 2
    /\ lastUdp.data = DiscoverBytes \o << 10 >>
    /\ lastUdp.calls = << [to |-> "peer2", data |-> HerePrefix \o << 56, 48 >>] >>
    /\ lastUdp.next = "recv"

\* (C10) A datagram with any other payload, one that is not UTF-8
\* included, is silently ignored: no reply, no error logged, no pause, and
\* the loop receives again.
C10_OthersIgnored ==
    (lastUdp # NoUdp /\ ~IsProbe(lastUdp.data)) =>
        /\ lastUdp.calls = << >>
        /\ ~lastUdp.logged
        /\ lastUdp.next = "recv"

\* ======================================================= errors, shutdown
\* The bind of the UDP socket failed.
BindFailed == sock = "unbound"

\* What a poll returns for the slot as the console last wrote it.
SlotAsWritten ==
    IF lastSet = NoWrite THEN EmptyObj
    ELSE [message |-> lastSet.text, id |-> ToStr(lastSet.ms)]

\* (C11) A UDP bind failure is fatal to the discovery loop only: the loop
\* logs the failure and ends without a sendto call, ever; GET /messages and
\* POST /response are still handled and the console loop still takes its
\* lines, with the results they have when the bind succeeds; and a
\* shutdown that follows still completes.
C11_BindFailure ==
    /\ [](BindFailed =>
             /\ udpPc = "done" /\ udpLog = OnBindFailure
             /\ nSent = 0 /\ lastUdp = NoUdp)
    /\ []((BindFailed /\ phase = "running") =>
             /\ ENABLED GetMessages
             /\ ENABLED PostResponse(FewBodies)
             /\ (inputFut = Pending => ENABLED ReadlineReturns(FewLines))
             /\ (inputFut.kind = "result" => ENABLED ConsoleLine))
    /\ []((BindFailed /\ Polled) =>
             /\ lastGet.status = StatusOk
             /\ lastGet.body = SlotAsWritten)
    /\ ((BindFailed /\ phase = "await_input") ~> (phase = "stopped"))

\* The bind failed; the service then took a line, answered a poll with it
\* and a POST with 200, and has stopped.
C11_Witness ==
    /\ BindFailed /\ phase = "stopped"
    /\ Polled /\ lastGet.body # EmptyObj
    /\ lastGet.body.message = current_message
    /\ lastPost.status = StatusOk

\* The console loop waits for a line: its readline is with the executor.
ConsoleWaits == inputPc = "reading" /\ inputFut = Pending

\* A step that is a POST /response.
PostStep == lastPost' # lastPost

\* (C12) The blocking console read never stalls the event loop: in every
\* state where the console loop waits for a line, GET /messages and
\* POST /response can be handled and the discovery loop can take its next
\* step (bind, receive, handle a datagram or an error, wake up); and the
\* console loop still waits after such a step.
C12_ReadNeverStalls ==
    /\ []((ConsoleWaits /\ phase = "running") =>
             /\ ENABLED GetMessages
             /\ ENABLED PostResponse(FewBodies)
             /\ (udpPc = "created") => ENABLED UdpStart
             /\ (udpPc = "recv" /\ udpFut = Pending /\ nSent < MaxSent) =>
                   ENABLED DatagramArrives(FewPayloads, OneAddr, MaxSent)
             /\ (udpPc = "recv" /\ udpFut.kind = "result") => ENABLED UdpDatagram
             /\ (udpPc = "recv" /\ udpFut.kind = "exception") =>
                   ENABLED UdpRecvError
             /\ (udpPc = "sleep") => ENABLED UdpWake)
    /\ [][(ConsoleWaits /\ (PollStep \/ PostStep \/ UdpHandles)) =>
             ConsoleWaits']_vars

\* The console loop waits for a line, none taken so far, and meanwhile a
\* poll was answered twice, a POST was answered and a probe was replied to.
C12_Witness ==
    /\ ConsoleWaits /\ phase = "running"
    /\ lastSet = NoWrite
    /\ lastGet.again
    /\ lastPost # NoPost
    /\ lastUdp.calls # << >>

\* The first cancel() of cleanup_background_tasks is being called.
CleanupBegins == phase = "running" /\ phase' = "await_input"

\* input_task has run its first step: the console loop waits for a line or
\* has ended.
InputStarted == inputPc \in {"reading", "done"}

\* A task that has ended, by a return or cancelled.
Ended(pc) == pc \in {"done", "cancelled"}

\* (C13) Shutdown: wherever the two loops are (waiting for a line, waiting
\* for a datagram, in the pause after a receive error, ended by end of input
\* or by a bind failure), cleanup requests the cancellation of each loop
\* that still runs, both loops end, cleanup returns only after both have
\* ended, it does return, and it never fails with the cancellation.
C13_Shutdown ==
    /\ [][CleanupBegins =>
             /\ inputCancel' = (inputPc \in {"created", "reading"})
             /\ udpCancel' = (udpPc \in {"created", "recv", "sleep"})]_vars
    /\ []((phase = "stopped" /\ InputStarted) =>
             /\ inputPc = "done" /\ ~inputCancel
             /\ Ended(udpPc) /\ ~udpCancel)
    /\ [](phase # "failed")
    /\ ((phase = "await_input") ~>
           (phase = "stopped" /\ Ended(inputPc) /\ Ended(udpPc)))

\* Cleanup has returned after a cancellation that reached the console loop
\* at its readline and the discovery loop in its pause after an error: the
\* console loop returned, the discovery task ended cancelled.
C13_Witness ==
    /\ phase = "stopped"
    /\ inputPc = "done" /\ inputFut = NoFut /\ lastSet # NoWrite
    /\ udpPc = "cancelled" /\ udpLog = OnUdpError

\* (C14) The discovery loop releases its socket on shutdown: once the task
\* of a loop that had bound its socket has ended, the socket is closed,
\* also when the cancellation arrived in the pause after a receive error.
C14_SocketReleased ==
    (Ended(udpPc) /\ sock \in {"open", "closed"}) => sock = "closed"

\* The step of console_input_loop that takes the empty string readline
\* returns at end of input.
ConsoleTakesEof ==
    /\ inputPc = "reading" /\ inputFut.kind = "result" /\ ~inputCancel
    /\ inputFut.v = << >>
    /\ inputFut' # inputFut

\* (C15) End of input ends the console loop cleanly: the step that takes it
\* writes nothing to the slot, logs no error and ends the loop, and a loop
\* that has ended never reads, writes or logs again.
C15_EofEndsLoop ==
    /\ [][ConsoleTakesEof =>
             /\ inputPc' = "done" /\ inputFut' = NoFut
             /\ slotVars' = slotVars /\ lastSet' = lastSet
             /\ inputLog' = NoLog]_vars
    /\ [][(inputPc = "done") =>
             /\ inputPc' = "done" /\ inputFut' = NoFut
             /\ slotVars' = slotVars
             /\ inputLog' = inputLog]_vars

\* The console loop has ended at end of input, with the message of an
\* earlier line in the slot and the service still running.
C15_Witness ==
    /\ inputPc = "done" /\ phase = "running"
    /\ current_message = << 97 >>
    /\ inputLog = NoLog

\* The step of udp_discovery_loop that takes the error its receive raised.
UdpTakesRecvError ==
    /\ udpPc = "recv" /\ udpFut.kind = "exception" /\ ~udpCancel
    /\ udpFut' # udpFut

\* The pause of udp_discovery_loop ends with no cancellation requested.
UdpPauseEnds == udpPc = "sleep" /\ ~udpCancel /\ udpPc' # "sleep"

\* (C16) A receive error does not end the discovery loop: the step that
\* takes it logs it and starts a pause of about a second, with the socket
\* left open; when the pause ends the loop receives again; and a
\* FLUENS_DISCOVER datagram handled after errors is answered as ever.
C16_RecvErrorSurvived ==
    /\ [][UdpTakesRecvError =>
             /\ udpLog'.msg = "UDP Error" /\ udpLog'.sleep = SleepSeconds
             /\ udpPc' = "sleep"
             /\ sock' = sock /\ sock = "open"]_vars
    /\ [][UdpPauseEnds =>
             /\ udpPc' = "recv" /\ udpFut' = Pending
             /\ sock' = "open"]_vars
    /\ []((udpPc = "recv" /\ udpFut = Pending /\ ~udpCancel /\ nSent < MaxSent
             /\ phase = "running") =>
             ENABLED DatagramArrives({DiscoverBytes}, Addrs, MaxSent))
    /\ [][(UdpHandles /\ IsProbe(udpFut.v)) =>
             /\ Len(lastUdp'.calls) = 1
             /\ lastUdp'.calls[1].to = udpFut.from]_vars

\* After a probe was answered, a receive failed; the loop logged it, paused
\* and is receiving again.
C16_Witness ==
    /\ udpPc = "recv" /\ udpFut = Pending /\ sock = "open"
    /\ udpLog = OnUdpError
    /\ lastUdp.calls # << >> /\ ~lastUdp.logged
    /\ phase = "running"

\* The step of console_input_loop that takes the exception its readline
\* raised.
ConsoleTakesError ==
    /\ inputPc = "reading" /\ inputFut.kind = "exception" /\ ~inputCancel
    /\ inputFut' # inputFut

\* (C17) An exception of the console read ends neither the loop nor the
\* service: the step that takes it logs it, leaves the slot and the service
\* as they are and hands the next readline to the executor; the loop can
\* then be given any line, and a non-blank line it takes is written to the
\* slot whatever exceptions came before.
C17_InputErrorSurvived ==
    /\ [][ConsoleTakesError =>
             /\ inputLog'.msg = "Input error"
             /\ slotVars' = slotVars /\ lastSet' = lastSet
             /\ phase' = phase
             /\ inputPc' = "reading" /\ inputFut' = Pending]_vars
    /\ []((ConsoleWaits /\ ~inputCancel) =>
             \A line \in FewLines : ENABLED ReadlineReturns({line}))
    /\ [][ConsoleTakesLine =>
             /\ current_message' = Trimmed(inputFut.v)
             /\ current_message_id' = ToStr(NowMillis)]_vars

\* A read has raised after a line was written and polled: the error is
\* logged, the slot still holds the line and the loop waits for the next.
C17_Witness ==
    /\ ConsoleWaits /\ inputLog = OnInputError
    /\ phase = "running"
    /\ current_message = << 97 >>
    /\ Polled /\ lastGet.body # EmptyObj

\* (C18) Both loops pause after a transient I/O error: the step that takes
\* a failed UDP receive, and the step that takes a failed console read,
\* each start a pause, and neither starts the next read in the same step.
C18_PauseAfterError ==
    [][/\ UdpTakesRecvError =>
             /\ udpLog'.sleep > 0
             /\ udpPc' = "sleep" /\ udpFut' # Pending
       /\ ConsoleTakesError =>
             /\ inputLog'.sleep > 0
             /\ inputFut' # Pending]_vars

\* The step of console_input_loop that takes a line of whitespace only.
ConsoleTakesBlank ==
    /\ inputPc = "reading" /\ inputFut.kind = "result" /\ ~inputCancel
    /\ inputFut.v # << >> /\ ~NonBlank(inputFut.v)
    /\ inputFut' # inputFut

\* (C19) The console loop writes only non-empty, trimmed text: the slot's
\* text, when present, is not empty and neither begins nor ends with
\* whitespace; a change of the text stores the trimmed text of the line
\* taken; a blank line leaves text and id as they are and the loop reading.
C19_TrimmedNonEmpty ==
    /\ []((current_message # None) =>
             /\ current_message # << >>
             /\ Head(current_message) \notin Whitespace
             /\ current_message[Len(current_message)] \notin Whitespace)
    /\ [][(current_message' # current_message) =>
             /\ NonBlank(inputFut.v)
             /\ current_message' = Trimmed(inputFut.v)]_vars
    /\ [][ConsoleTakesBlank =>
             /\ slotVars' = slotVars
             /\ inputPc' = "reading" /\ inputFut' = Pending]_vars

\* The slot holds the trimmed text "a" of a line that overwrote another,
\* and the loop, still reading, has a line of two spaces to take.
C19_Witness ==
    /\ current_message = << 97 >>
    /\ inputPc = "reading"
    /\ inputFut.kind = "result" /\ inputFut.v = << 32, 32, 10 >>
    /\ lastSet.over

\* The console loop has ended (at end of input, while the service runs).
ConsoleEnded == inputPc = "done"

\* (C20) The service outlives the console loop: taking the end of input
\* does not stop the service; once the loop has ended the slot keeps the
\* value it has, each poll returns that pair, or {} when nothing was ever
\* written, and until shutdown GET /messages and POST /response are handled
\* and the discovery loop takes its steps.
C20_ServiceOutlivesConsole ==
    /\ [][ConsoleTakesEof => (phase' = phase /\ udpVars' = udpVars)]_vars
    /\ [][ConsoleEnded =>
             /\ slotVars' = slotVars
             /\ PollStep => /\ lastGet'.status = StatusOk
                            /\ lastGet'.body = SlotAsWritten]_vars
    /\ []((ConsoleEnded /\ phase = "running") =>
             /\ ENABLED GetMessages
             /\ ENABLED PostResponse(FewBodies)
             /\ (udpPc = "recv" /\ udpFut = Pending /\ nSent < MaxSent) =>
                   ENABLED DatagramArrives(FewPayloads, OneAddr, MaxSent)
             /\ (udpPc = "recv" /\ udpFut.kind = "result") => ENABLED UdpDatagram)

\* The console loop has ended at end of input and the service runs: the
\* slot holds the last line written, a repeated poll has returned it, a
\* POST was answered and a probe was replied to.
C20_Witness ==
    /\ ConsoleEnded /\ phase = "running"
    /\ current_message = << 97 >>
    /\ lastGet.again /\ lastGet.body = SlotAsWritten
    /\ lastPost.status = StatusOk
    /\ lastUdp.calls # << >>

====
